---- MODULE Spec2Model ----
(***************************************************************************)
(* Model of the Tokyo idea-spread simulation: backend/models/agent.py,     *)
(* backend/models/location.py and backend/models/simulation.py.            *)
(*                                                                         *)
(* Units.  Times and durations are tenths of an hour (0.3 h = 3, one day   *)
(* = 240).  Coordinates are opaque positive integers compared by equality  *)
(* only, as the code compares coordinate tuples; None is 0.  Probabilities *)
(* are ten-thousandths: transmission_rate is given in hundredths, the      *)
(* density multiplier and the location-type factor in tenths.              *)
(***************************************************************************)
EXTENDS Integers, Sequences, FiniteSets, TLC

VARIABLES
    agents,        \* TokyoSimulation.agents: sequence of TokyoResident records
    current_time,  \* TokyoSimulation.current_time
    num_agents,    \* TokyoSimulation.num_agents
    params,        \* TokyoSimulation.params (simulation_params)
    locations,     \* LocationManager.locations: id -> Location
    capacity,      \* LocationParams.capacity of each shared LocationParams object
    call,          \* the last call made and what it returned
    trials         \* the Bernoulli trials of the last interaction pass, in order

vars == <<agents, current_time, num_agents, params, locations, capacity, call, trials>>

(***************************************************************************)
(* Bounds of the model.                                                    *)
(***************************************************************************)
NumAgents == 3
MaxTicks == 25
MaxTransfers == 2
MaxSchedLen == 2
MaxOccupants == 2
MaxCapacity == 2
BootTicks == 2

None == 0

Min(a, b) == IF a < b THEN a ELSE b

Max(a, b) == IF a > b THEN a ELSE b

\* A Python list with its elements evaluated: the same sequence as f.
List(f) == SubSeq(f, 1, Len(f))

SeqSum(s) ==
    LET F[k \in 0..Len(s)] == IF k = 0 THEN 0 ELSE F[k - 1] + s[k]
    IN F[Len(s)]

(***************************************************************************)
(* Coordinates.  Stations are the first entries of major_stations; one     *)
(* izakaya coordinate stands for the cluster generated near each station.  *)
(***************************************************************************)
StationNames == <<"Tokyo", "Shinjuku", "Shibuya">>

StationCoord(name) ==
    CASE name = "Tokyo" -> 1
      [] name = "Shinjuku" -> 2
      [] name = "Shibuya" -> 3

StationCoords == {StationCoord(StationNames[k]) : k \in 1..Len(StationNames)}

IzakayaCoord(name) == 10 + StationCoord(name)

IzakayaCoords == {IzakayaCoord(StationNames[k]) : k \in 1..Len(StationNames)}

HomeCoords == {21, 22}

WorkCoords == {31, 32}

\* min(stations, key=distance to home_loc): in this geometry home 21 lies
\* nearest to station 1 and home 22 to station 2.
NearestStation(home_loc) == home_loc - 20

\* The izakayas within 0.01 of a station: the cluster generated around it.
NearbyIzakayas(work_station) == {c \in IzakayaCoords : c = 10 + work_station}

(***************************************************************************)
(* agent.py: Schedule and TokyoResident                                    *)
(***************************************************************************)
Schedule(location_type, duration, start_time) ==
    [location_type |-> location_type, duration |-> duration, start_time |-> start_time]

LocationTypes == {"home", "work", "home_station", "work_station", "transfer", "izakaya"}

TokyoResident(id, home_location, work_location, home_station, work_station, transfer_stations, izakaya_location, uses_train, goes_to_izakaya) ==
    [id |-> id,
     home_location |-> home_location,
     work_location |-> work_location,
     home_station |-> home_station,
     work_station |-> work_station,
     transfer_stations |-> transfer_stations,
     izakaya_location |-> izakaya_location,
     uses_train |-> uses_train,
     goes_to_izakaya |-> goes_to_izakaya,
     current_location |-> home_location,
     has_idea |-> FALSE,
     schedule |-> <<>>,
     current_time |-> 0]

TransferEntriesLong(n, t) == [k \in 1..n |-> Schedule("transfer", 3, t + 2 * (k - 1))]

\* One TRANSFER entry of 0.2 h per transfer station, laid end to end from t.
TransferEntries(n, t) == [k \in 1..n |-> Schedule("transfer", 2, t + 2 * (k - 1))]

\* The outcomes of the random draws of generate_daily_schedule: work_start
\* and work_duration after clamping, late_night (random() < 0.2),
\* izakaya_regular and izakaya_late (the two uniform draws) and
\* missed_train (random() < 0.3).
ClampWorkStart(x) == Max(Min(x, 100), 80)

ClampWorkDuration(x) == Max(Min(x, 90), 70)

\* generate_daily_schedule: [ret |-> the list returned, self |-> the agent
\* afterwards].  The missed-last-train branch returns before the assignment
\* to self.schedule.
generate_daily_schedule(self, d) ==
    LET work_start == ClampWorkStart(d.work_start)
        n == Len(self.transfer_stations)
        morning == <<Schedule("home", work_start, 0)>>
        commute_in ==
            IF self.uses_train
            THEN <<Schedule("home_station", 3, work_start)>>
                 \o TransferEntries(n, work_start + 3)
                 \o <<Schedule("work_station", 3, work_start + 3 + 2 * n)>>
            ELSE <<>>
        t_work == IF self.uses_train THEN work_start + 3 + 2 * n + 3 ELSE work_start + 5
        work_duration == ClampWorkDuration(d.work_duration)
        t_evening == t_work + work_duration
        to_work == morning \o commute_in \o <<Schedule("work", work_duration, t_work)>>
        visits == self.goes_to_izakaya /\ self.izakaya_location # None
        izakaya_duration == IF d.late_night THEN d.izakaya_late ELSE d.izakaya_regular
        t_out == IF visits THEN t_evening + izakaya_duration ELSE t_evening
        evening ==
            IF visits
            THEN to_work \o <<Schedule("izakaya", izakaya_duration, t_evening)>>
            ELSE to_work
        commute_out ==
            IF self.uses_train
            THEN <<Schedule("work_station", 3, t_out)>>
                 \o TransferEntries(n, t_out + 3)
                 \o <<Schedule("home_station", 3, t_out + 3 + 2 * n)>>
            ELSE <<>>
        t_home == IF self.uses_train THEN t_out + 3 + 2 * n + 3 ELSE t_out + 5
        full == evening \o commute_out \o <<Schedule("home", 240 - t_home, t_home)>>
    IN  IF visits /\ d.late_night /\ d.missed_train
        THEN [ret |-> evening \o <<Schedule("izakaya", 240 - t_out, t_out)>>,
              self |-> self]
        ELSE [ret |-> full, self |-> [self EXCEPT !.schedule = full]]

\* The test of move and interact: start_time <= t < start_time + duration.
Matches(s, t) == s.start_time <= t /\ t < s.start_time + s.duration

RECURSIVE LastMatchFrom(_, _, _)
LastMatchFrom(schedule, time_float, k) ==
    IF k > Len(schedule) THEN 0
    ELSE LET later == LastMatchFrom(schedule, time_float, k + 1)
         IN  IF later # 0 THEN later
             ELSE IF Matches(schedule[k], time_float) THEN k ELSE 0

\* The entry the for loop of move stops at: the first one that matches, 0
\* when the loop runs to its end.
RECURSIVE FirstMatch(_, _, _)
FirstMatch(schedule, time_float, k) ==
    IF k > Len(schedule) THEN 0
    ELSE IF Matches(schedule[k], time_float) THEN k
    ELSE FirstMatch(schedule, time_float, k + 1)

\* list.index: the first position holding an entry equal to e (Schedule is
\* a dataclass, so equality is by fields).
ListIndex(schedule, e) ==
    CHOOSE k \in 1..Len(schedule) :
        schedule[k] = e /\ \A j \in 1..(k - 1) : schedule[j] # e

TransferIdxFirst(schedule, e) == 0

\* idx of the transfer branch: the TRANSFER entries before the matched one.
TransferIdx(schedule, e) ==
    Cardinality({j \in 1..(ListIndex(schedule, e) - 1) :
                    schedule[j].location_type = "transfer"})

TransferLocationNoFallback(self, e) ==
    LET idx == TransferIdx(self.schedule, e)
    IN  IF 0 <= idx /\ idx < Len(self.transfer_stations)
        THEN self.transfer_stations[idx + 1]
        ELSE None

TransferLocationStationOnly(self, e) ==
    LET idx == TransferIdx(self.schedule, e)
    IN  IF 0 <= idx /\ idx < Len(self.transfer_stations)
        THEN self.transfer_stations[idx + 1]
        ELSE self.work_station

\* The transfer branch of move, with its out-of-range fallback.
TransferLocation(self, e) ==
    LET idx == TransferIdx(self.schedule, e)
    IN  IF 0 <= idx /\ idx < Len(self.transfer_stations)
        THEN self.transfer_stations[idx + 1]
        ELSE IF self.work_station # None THEN self.work_station
        ELSE self.work_location

\* The if/elif chain of move for the matched entry e.
Resolve(self, e) ==
    IF e.location_type = "home" THEN self.home_location
    ELSE IF e.location_type = "work" THEN self.work_location
    ELSE IF e.location_type = "home_station" /\ self.home_station # None
        THEN self.home_station
    ELSE IF e.location_type = "work_station" /\ self.work_station # None
        THEN self.work_station
    ELSE IF e.location_type = "transfer" THEN TransferLocation(self, e)
    ELSE IF e.location_type = "izakaya" /\ self.izakaya_location # None
        THEN self.izakaya_location
    ELSE self.current_location

moveLastMatch(self, time) ==
    LET k == LastMatchFrom(self.schedule, time, 1)
    IN  IF k = 0 THEN self
        ELSE [self EXCEPT !.current_location = Resolve(self, self.schedule[k])]

moveHomeFallback(self, time) ==
    LET k == FirstMatch(self.schedule, time, 1)
    IN  IF k = 0 THEN [self EXCEPT !.current_location = self.home_location]
        ELSE [self EXCEPT !.current_location = Resolve(self, self.schedule[k])]

moveTracksTime(self, time) ==
    LET k == FirstMatch(self.schedule, time, 1)
    IN  IF k = 0 THEN [self EXCEPT !.current_time = time]
        ELSE [self EXCEPT !.current_location = Resolve(self, self.schedule[k]),
                          !.current_time = time]

\* move(time): the agent afterwards; the value returned is its
\* current_location.
move(self, time) ==
    LET k == FirstMatch(self.schedule, time, 1)
    IN  IF k = 0 THEN self
        ELSE [self EXCEPT !.current_location = Resolve(self, self.schedule[k])]

(***************************************************************************)
(* simulation.py: bootstrap                                                *)
(***************************************************************************)
DefaultParams == [transmission_rate |-> 5, initial_infected |-> 1, izakaya_capacity |-> 50]

\* _create_locations: every station shares station_params, every izakaya
\* shares izakaya_params.
LocationIds ==
    {"station_" \o StationNames[k] : k \in 1..Len(StationNames)}
    \cup {"izakaya_" \o StationNames[k] \o "_0" : k \in 1..Len(StationNames)}

Location(location_type, coordinates, params_object) ==
    [type |-> location_type, coordinates |-> coordinates,
     params |-> params_object, current_occupants |-> <<>>]

_create_locations ==
    [id \in LocationIds |->
        LET k == CHOOSE j \in 1..Len(StationNames) :
                    id \in {"station_" \o StationNames[j],
                            "izakaya_" \o StationNames[j] \o "_0"}
        IN  IF id = "station_" \o StationNames[k]
            THEN Location("station", StationCoord(StationNames[k]), "station_params")
            ELSE Location("izakaya", IzakayaCoord(StationNames[k]), "izakaya_params")]

_create_capacity(p) ==
    [station_params |-> 1000, izakaya_params |-> p.izakaya_capacity]

\* _select_transfer_stations: no station when num_transfers is 0 or too few
\* candidates lie between the two stations (step = 0), else num_transfers
\* distinct candidates, none of them the start.  Which stations lie between
\* is geometry the model leaves open: picks is any such list.
_select_transfer_stations(start_coords, num_transfers, picks) ==
    IF num_transfers = 0 THEN <<>> ELSE picks

TransferPicks(start_coords, num_transfers) ==
    {<<>>} \cup
    {p \in [1..num_transfers -> StationCoords \ {start_coords}] :
        \A i, j \in 1..num_transfers : i # j => p[i] # p[j]}

\* One iteration of the loop of _create_agents; d holds the outcomes of its
\* random draws and of those of generate_daily_schedule.
CreateAgent(i, d) ==
    LET home_station == IF d.uses_train THEN NearestStation(d.home_loc) ELSE None
        work_station == IF d.uses_train THEN d.work_station ELSE None
        num_transfers == Min(Max(d.num_transfers, 0), 5)
        transfer_stations ==
            IF d.uses_train
            THEN _select_transfer_stations(home_station, num_transfers, d.picks)
            ELSE <<>>
        izakaya_loc ==
            IF d.goes_to_izakaya /\ work_station # None
            THEN IF NearbyIzakayas(work_station) # {}
                 THEN d.izakaya_loc
                 ELSE work_station
            ELSE None
        agent == TokyoResident(i, d.home_loc, d.work_loc, home_station, work_station,
                               transfer_stations, izakaya_loc, d.uses_train,
                               d.goes_to_izakaya)
    IN  generate_daily_schedule(agent, d).self

_create_agentsSameId(n, ds) == List([i \in 1..n |-> CreateAgent(0, ds[i])])

\* _create_agents: range(num_agents) iterations, each appending its agent.
_create_agents(n, ds) == List([i \in 1..n |-> CreateAgent(i - 1, ds[i])])

\* The outcomes of the draws of one agent.  Fields a branch does not read
\* are fixed, so that each agent is produced once.
ScheduleDraws(WorkStarts, WorkDurations, Evenings) ==
    {[work_start |-> ws, work_duration |-> wd, late_night |-> e.late_night,
      izakaya_regular |-> e.izakaya_regular, izakaya_late |-> e.izakaya_late,
      missed_train |-> e.missed_train] :
        ws \in WorkStarts, wd \in WorkDurations, e \in Evenings}

NoEvening ==
    [late_night |-> FALSE, izakaya_regular |-> 15, izakaya_late |-> 40, missed_train |-> FALSE]

Evenings(Regular, Late) ==
    {[NoEvening EXCEPT !.izakaya_regular = r] : r \in Regular}
    \cup {[NoEvening EXCEPT !.late_night = TRUE, !.izakaya_late = l, !.missed_train = m] :
            l \in Late, m \in BOOLEAN}

WalkerDraws(Homes, Works, Goes, S) ==
    {[home_loc |-> h, uses_train |-> FALSE, work_station |-> None, num_transfers |-> 0,
      picks |-> <<>>, work_loc |-> w, goes_to_izakaya |-> g, izakaya_loc |-> None,
      work_start |-> s.work_start, work_duration |-> s.work_duration,
      late_night |-> s.late_night, izakaya_regular |-> s.izakaya_regular,
      izakaya_late |-> s.izakaya_late, missed_train |-> s.missed_train] :
        h \in Homes, w \in Works, g \in Goes, s \in S}

CommuterDraws(Homes, Works, WorkStations, Transfers, Picks, Goes, S) ==
    UNION {
        {[home_loc |-> h, uses_train |-> TRUE, work_station |-> st, num_transfers |-> n,
          picks |-> p, work_loc |-> w, goes_to_izakaya |-> g, izakaya_loc |-> iz,
          work_start |-> s.work_start, work_duration |-> s.work_duration,
          late_night |-> s.late_night, izakaya_regular |-> s.izakaya_regular,
          izakaya_late |-> s.izakaya_late, missed_train |-> s.missed_train] :
            p \in TransferPicks(NearestStation(h), n) \cap Picks,
            iz \in NearbyIzakayas(st)} :
        h \in Homes, w \in Works, st \in WorkStations, n \in Transfers, g \in Goes, s \in S}

AllPicks == UNION {TransferPicks(None, n) : n \in 0..MaxTransfers}

(***************************************************************************)
(* A resident on its own: one agent made by _create_agents, then move(h)   *)
(* for the half hours of a day, in any order.                              *)
(***************************************************************************)
HalfHours == {5 * k : k \in 0..47}

ResidentDraws ==
    LET S == ScheduleDraws({80, 86, 100}, {70, 90}, Evenings({15, 30}, {40, 60}))
        S0 == ScheduleDraws({80, 86, 100}, {70, 90}, Evenings({15}, {}))
    IN  WalkerDraws({21}, {31}, BOOLEAN, S0)
        \cup CommuterDraws({21}, {31}, StationCoords, 0..MaxTransfers, AllPicks, {FALSE}, S0)
        \cup CommuterDraws({21}, {31}, StationCoords, 0..MaxTransfers, AllPicks, {TRUE}, S)

NoCall == [op |-> "none", arg |-> 0, ret |-> 0]

IdleSimulation ==
    /\ current_time = 0
    /\ num_agents = 1
    /\ params = DefaultParams
    /\ locations = _create_locations
    /\ capacity = _create_capacity(DefaultParams)
    /\ call = NoCall
    /\ trials = <<>>

InitResident ==
    /\ \E d \in ResidentDraws : agents = _create_agents(1, <<d>>)
    /\ IdleSimulation

\* agent.move(time), called on the only agent.
Move(time) ==
    /\ agents' = [agents EXCEPT ![1] = move(agents[1], time)]
    /\ call' = [op |-> "move", arg |-> time, ret |-> agents'[1].current_location]
    /\ UNCHANGED <<current_time, num_agents, params, locations, capacity, trials>>

NextResident == \E h \in HalfHours : Move(h)

SpecResident == InitResident /\ [][NextResident]_vars

(***************************************************************************)
(* move as a function of any schedule: an agent constructed directly, with *)
(* any anchors and any schedule list of at most MaxSchedLen entries.       *)
(***************************************************************************)
EntryTimes == {<<0, 10>>, <<0, 20>>, <<10, 10>>}

Entries == {Schedule(ty, t[2], t[1]) : ty \in LocationTypes, t \in EntryTimes}

Schedules == UNION {[1..n -> Entries] : n \in 0..MaxSchedLen}

MoveHours == {0, 5, 10, 15, 20}

InitMove ==
    /\ \E hs \in {None, 1}, ws \in {None, 2}, tr \in {<<>>, <<3>>}, iz \in {None, 11},
          sch \in Schedules :
            agents = <<[TokyoResident(0, 21, 31, hs, ws, tr, iz, hs # None, iz # None)
                            EXCEPT !.schedule = sch]>>
    /\ IdleSimulation

NextMove == \E h \in MoveHours : Move(h)

SpecMove == InitMove /\ [][NextMove]_vars

(***************************************************************************)
(* simulation.py: step, _process_interactions, get_state; agent.interact   *)
(***************************************************************************)
\* np.random.random(): values of [0, 1), in ten-thousandths.
RandomDraws == {0, 9999}

density_multiplierMax(group_size) == Max(group_size, 20)

\* min(group_size / 10, 2.0), in tenths.
density_multiplier(group_size) == Min(group_size, 20)

\* The factor interact applies for a schedule entry's location_type, in tenths.
LocationFactor(location_type) ==
    CASE location_type = "work" -> 2
      [] location_type = "izakaya" -> 50
      [] location_type \in {"transfer", "work_station", "home_station"} -> 20
      [] location_type = "home" -> 1
      [] OTHER -> 10

\* current_schedule of interact: the first entry matching the agent's own
\* current_time % 24 (0 when there is none).  TokyoResident.current_time is
\* set in __init__ and assigned nowhere else.
current_schedule(self) == FirstMatch(self.schedule, 10 * (self.current_time % 24), 1)

TrialHandOver(st, a, b, modified_rate, draw) ==
    LET adopted == draw < modified_rate
    IN  [agents |-> IF adopted
                    THEN List([i \in 1..Len(st.agents) |->
                            IF i = b THEN [st.agents[i] EXCEPT !.has_idea = TRUE]
                            ELSE IF i = a THEN [st.agents[i] EXCEPT !.has_idea = FALSE]
                            ELSE st.agents[i]])
                    ELSE st.agents,
         trials |-> Append(st.trials,
                           [from |-> a, to |-> b, rate |-> modified_rate,
                            draw |-> draw, adopted |-> adopted])]

TrialInclusive(st, a, b, modified_rate, draw) ==
    LET adopted == draw <= modified_rate
    IN  [agents |-> IF adopted
                    THEN List([i \in 1..Len(st.agents) |->
                            IF i = b THEN [st.agents[i] EXCEPT !.has_idea = TRUE]
                            ELSE st.agents[i]])
                    ELSE st.agents,
         trials |-> Append(st.trials,
                           [from |-> a, to |-> b, rate |-> modified_rate,
                            draw |-> draw, adopted |-> adopted])]

TrialSpill(st, a, b, modified_rate, draw) ==
    LET adopted == draw < modified_rate
    IN  [agents |-> IF adopted
                    THEN List([i \in 1..Len(st.agents) |->
                            [st.agents[i] EXCEPT !.has_idea = TRUE]])
                    ELSE st.agents,
         trials |-> Append(st.trials,
                           [from |-> a, to |-> b, rate |-> modified_rate,
                            draw |-> draw, adopted |-> adopted])]

\* One pass of the inner loop of interact over an agent that is at the same
\* place and lacks the idea: the draw is compared with modified_rate.
Trial(st, a, b, modified_rate, draw) ==
    LET adopted == draw < modified_rate
    IN  [agents |-> IF adopted
                    THEN List([i \in 1..Len(st.agents) |->
                            IF i = b THEN [st.agents[i] EXCEPT !.has_idea = TRUE]
                            ELSE st.agents[i]])
                    ELSE st.agents,
         trials |-> Append(st.trials,
                           [from |-> a, to |-> b, rate |-> modified_rate,
                            draw |-> draw, adopted |-> adopted])]

TrialOverwrite(st, a, b, modified_rate, draw) ==
    LET adopted == draw < modified_rate
    IN  [agents |-> List([i \in 1..Len(st.agents) |->
                            IF i = b THEN [st.agents[i] EXCEPT !.has_idea = adopted]
                            ELSE st.agents[i]]),
         trials |-> Append(st.trials,
                           [from |-> a, to |-> b, rate |-> modified_rate,
                            draw |-> draw, adopted |-> adopted])]

RECURSIVE InteractLoopOverwrite(_, _, _, _, _)
InteractLoopOverwrite(st, a, other_agents, k, modified_rate) ==
    IF k > Len(other_agents) THEN {st}
    ELSE LET b == other_agents[k]
         IN  IF /\ st.agents[b].current_location = st.agents[a].current_location
                /\ b # a
             THEN UNION {InteractLoopOverwrite(TrialOverwrite(st, a, b, modified_rate, draw),
                                               a, other_agents, k + 1, modified_rate) :
                            draw \in RandomDraws}
             ELSE InteractLoopOverwrite(st, a, other_agents, k + 1, modified_rate)

\* for agent in other_agents, from position k on: the states it can end in.
RECURSIVE InteractLoop(_, _, _, _, _)
InteractLoop(st, a, other_agents, k, modified_rate) ==
    IF k > Len(other_agents) THEN {st}
    ELSE LET b == other_agents[k]
         IN  IF /\ st.agents[b].current_location = st.agents[a].current_location
                /\ ~st.agents[b].has_idea
             THEN UNION {InteractLoop(Trial(st, a, b, modified_rate, draw),
                                      a, other_agents, k + 1, modified_rate) :
                            draw \in RandomDraws}
             ELSE InteractLoop(st, a, other_agents, k + 1, modified_rate)

Reverse(s) == [k \in 1..Len(s) |-> s[Len(s) + 1 - k]]

interactUnordered(st, a, other_agents, base_transmission_rate) ==
    IF ~st.agents[a].has_idea THEN {st}
    ELSE LET k == current_schedule(st.agents[a])
             modified_rate ==
                base_transmission_rate
                    * LocationFactor(st.agents[a].schedule[k].location_type)
         IN  IF k = 0 THEN {st}
             ELSE InteractLoop(st, a, other_agents, 1, modified_rate)
                  \cup InteractLoop(st, a, List(Reverse(other_agents)), 1, modified_rate)

\* agents[a].interact(other_agents, base_transmission_rate); the rate passed
\* is in thousandths, modified_rate in ten-thousandths.
interact(st, a, other_agents, base_transmission_rate) ==
    IF ~st.agents[a].has_idea THEN {st}
    ELSE LET k == current_schedule(st.agents[a])
         IN  IF k = 0 THEN {st}
             ELSE InteractLoop(st, a, other_agents, 1,
                    base_transmission_rate
                        * LocationFactor(st.agents[a].schedule[k].location_type))

\* location_groups: the keys in insertion order, and the agents (positions
\* in the agent list) under each key in list order.
GroupKeys(ags) ==
    LET F[k \in 0..Len(ags)] ==
            IF k = 0 THEN <<>>
            ELSE IF \E j \in 1..Len(F[k - 1]) : F[k - 1][j] = ags[k].current_location
                 THEN F[k - 1]
                 ELSE Append(F[k - 1], ags[k].current_location)
    IN  F[Len(ags)]

LocationGroup(ags, loc) ==
    SelectSeq([i \in 1..Len(ags) |-> i], LAMBDA i : ags[i].current_location = loc)

location_groups(ags) ==
    LET keys == GroupKeys(ags)
    IN  List([g \in 1..Len(keys) |-> LocationGroup(ags, keys[g])])

\* for agent in agents: agent.interact(agents, rate), from position k on.
RECURSIVE GroupLoop(_, _, _, _)
GroupLoop(S, group, k, rate) ==
    IF k > Len(group) THEN S
    ELSE GroupLoop(UNION {interact(st, group[k], group, rate) : st \in S},
                   group, k + 1, rate)

\* for agents in location_groups.values(), from group g on.
RECURSIVE GroupsLoop(_, _, _, _)
GroupsLoop(S, groups, g, base_transmission_rate) ==
    IF g > Len(groups) THEN S
    ELSE GroupsLoop(
            GroupLoop(S, groups[g], 1,
                      base_transmission_rate * density_multiplier(Len(groups[g]))),
            groups, g + 1, base_transmission_rate)

\* _process_interactions: the states the pass can end in, each with the
\* trials it ran.
_process_interactions(ags, p) ==
    GroupsLoop({[agents |-> ags, trials |-> <<>>]}, location_groups(ags), 1,
               p.transmission_rate)

\* get_state(); infection_rate is kept as the fraction num / den.
get_state ==
    [time |-> current_time,
     infected_count |-> Cardinality({i \in 1..Len(agents) : agents[i].has_idea}),
     agent_locations |->
        [i \in 1..Len(agents) |-> <<agents[i].current_location, agents[i].has_idea>>],
     infection_rate |->
        [num |-> SeqSum([i \in 1..Len(agents) |-> IF agents[i].has_idea THEN 1 ELSE 0]),
         den |-> Len(agents)]]

_initialize_idea_spreadFirst(ags, initial_spreaders) ==
    List([i \in 1..Len(ags) |->
        IF i \in initial_spreaders \/ i = 1
        THEN [ags[i] EXCEPT !.has_idea = TRUE] ELSE ags[i]])

\* _initialize_idea_spread: np.random.choice(agents, size, replace=False)
\* picks a set of that many agents.
_initialize_idea_spread(ags, initial_spreaders) ==
    List([i \in 1..Len(ags) |->
        IF i \in initial_spreaders THEN [ags[i] EXCEPT !.has_idea = TRUE] ELSE ags[i]])

SimDraws ==
    LET W == ScheduleDraws({85}, {80}, Evenings({15}, {}))
        C == ScheduleDraws({86}, {80},
                {e \in Evenings({30}, {60}) : e.late_night => e.missed_train})
    IN  WalkerDraws({21}, {31}, {FALSE}, W)
        \cup CommuterDraws({21}, {32}, {2}, {1}, {<<3>>}, {TRUE}, C)

SimRates == {0, 100}

Init ==
    /\ current_time = 0
    /\ num_agents \in 1..NumAgents
    /\ \E rate \in SimRates : params = [DefaultParams EXCEPT !.transmission_rate = rate]
    /\ locations = _create_locations
    /\ capacity = _create_capacity(params)
    /\ \E ds \in [1..num_agents -> SimDraws] :
       \E initial_spreaders \in SUBSET (1..num_agents) :
            /\ Cardinality(initial_spreaders) = params.initial_infected
            /\ agents = _initialize_idea_spread(
                            _create_agents(num_agents, ds), initial_spreaders)
    /\ call = NoCall
    /\ trials = <<>>

stepInteractFirst(ags, time, p) ==
    {[agents |-> List([i \in 1..Len(st.agents) |-> move(st.agents[i], 10 * (time % 24))]),
      trials |-> st.trials] :
        st \in _process_interactions(ags, p)}

\* step(): the clock, every agent's move, then the interaction pass.
step(ags, time, p) ==
    _process_interactions(List([i \in 1..Len(ags) |-> move(ags[i], 10 * (time % 24))]), p)

StepWrap ==
    /\ current_time < MaxTicks
    /\ current_time' = (current_time + 1) % 24
    /\ \E st \in step(agents, current_time', params) :
            /\ agents' = st.agents
            /\ trials' = st.trials
    /\ call' = [op |-> "step", arg |-> 0, ret |-> 0]
    /\ UNCHANGED <<num_agents, params, locations, capacity>>

Step ==
    /\ current_time < MaxTicks
    /\ current_time' = current_time + 1
    /\ \E st \in step(agents, current_time', params) :
            /\ agents' = st.agents
            /\ trials' = st.trials
    /\ call' = [op |-> "step", arg |-> 0, ret |-> 0]
    /\ UNCHANGED <<num_agents, params, locations, capacity>>

GetStateRelocating ==
    /\ call' = [op |-> "get_state", arg |-> 0,
                ret |-> IF Len(agents) = 0 THEN "ZeroDivisionError" ELSE get_state]
    /\ agents' = List([i \in 1..Len(agents) |->
                    [agents[i] EXCEPT !.current_location = agents[i].home_location]])
    /\ UNCHANGED <<current_time, num_agents, params, locations, capacity, trials>>

\* get_state(): the division by len(self.agents) raises when there is no agent.
GetState ==
    /\ call' = [op |-> "get_state", arg |-> 0,
                ret |-> IF Len(agents) = 0 THEN "ZeroDivisionError" ELSE get_state]
    /\ UNCHANGED <<agents, current_time, num_agents, params, locations, capacity, trials>>

Next == Step \/ GetState

Spec == Init /\ [][Next]_vars

(***************************************************************************)
(* Construction.  The state before initialize_simulation() is that of      *)
(* __init__ after its assignments; initialize_simulation either completes  *)
(* or raises, and then no simulation object exists to call.                *)
(***************************************************************************)
np_random_choiceClamped(n, size) ==
    {[error |-> FALSE, picked |-> S] :
        S \in {T \in SUBSET (1..n) : Cardinality(T) = Min(size, n)}}

\* np.random.choice(a, size, replace=False) for len(a) = n and size >= 0:
\* a sample larger than the population raises ValueError; from an empty
\* population a sample of size 0 raises in numpy before 1.17 ("a must be
\* non-empty") and is the empty array from 1.17 on; otherwise any size
\* distinct elements.  The repository pins no numpy version.
np_random_choice(n, size) ==
    IF size > n THEN {[error |-> TRUE, picked |-> {}]}
    ELSE IF n = 0 THEN {[error |-> TRUE, picked |-> {}], [error |-> FALSE, picked |-> {}]}
    ELSE {[error |-> FALSE, picked |-> S] :
            S \in {T \in SUBSET (1..n) : Cardinality(T) = size}}

InitBoot ==
    /\ num_agents \in 0..NumAgents
    /\ \E rate \in SimRates, k \in 0..(NumAgents + 1) :
            params = [DefaultParams EXCEPT !.transmission_rate = rate,
                                           !.initial_infected = k]
    /\ current_time = 0
    /\ locations = <<>>
    /\ capacity = <<>>
    /\ agents = <<>>
    /\ call = NoCall
    /\ trials = <<>>

\* initialize_simulation(), and with it the return of __init__.
initialize_simulation ==
    /\ call.op = "none"
    /\ locations' = _create_locations
    /\ capacity' = _create_capacity(params)
    /\ \E ds \in [1..num_agents -> SimDraws] :
       \E initial_spreaders \in np_random_choice(num_agents, params.initial_infected) :
            IF initial_spreaders.error
            THEN /\ agents' = _create_agents(num_agents, ds)
                 /\ call' = [op |-> "__init__", arg |-> 0, ret |-> "ValueError"]
            ELSE /\ agents' = _initialize_idea_spread(
                                _create_agents(num_agents, ds), initial_spreaders.picked)
                 /\ call' = [op |-> "__init__", arg |-> 0, ret |-> "TokyoSimulation"]
    /\ UNCHANGED <<current_time, num_agents, params, trials>>

\* __init__ returned a simulation: there is an object to call step() and
\* get_state() on.
Constructed ==
    /\ call.op # "none"
    /\ call.op = "__init__" => call.ret = "TokyoSimulation"

NextBoot ==
    \/ initialize_simulation
    \/ Constructed /\ current_time < BootTicks /\ Step
    \/ Constructed /\ GetState

SpecBoot == InitBoot /\ [][NextBoot]_vars

(***************************************************************************)
(* location.py: Location and LocationManager.  The manager holds two       *)
(* stations and one izakaya of _create_locations; agent ids are 0 and 1.   *)
(***************************************************************************)
ManagedIds == {"station_Tokyo", "station_Shinjuku", "izakaya_Tokyo_0"}

OccupantIds == {0, 1}

LocationKinds == {"station", "izakaya"}

add_occupantInclusive(self, cap, agent_id) ==
    IF Len(self.current_occupants) <= cap
    THEN [ret |-> TRUE,
          self |-> [self EXCEPT !.current_occupants = Append(@, agent_id)]]
    ELSE [ret |-> FALSE, self |-> self]

\* Location.add_occupant: [ret |-> the value returned, self |-> the location].
add_occupant(self, cap, agent_id) ==
    IF Len(self.current_occupants) < cap
    THEN [ret |-> TRUE,
          self |-> [self EXCEPT !.current_occupants = Append(@, agent_id)]]
    ELSE [ret |-> FALSE, self |-> self]

\* Location.get_occupancy_ratio: len(current_occupants) / params.capacity,
\* kept as the fraction num / den; the division raises ZeroDivisionError
\* when the capacity is 0.
get_occupancy_ratio(self, cap) ==
    [raises |-> cap = 0, num |-> Len(self.current_occupants), den |-> cap]

\* list.remove: drops the first occurrence.
ListRemove(l, x) ==
    LET k == CHOOSE j \in 1..Len(l) : l[j] = x /\ \A i \in 1..(j - 1) : l[i] # x
    IN  SubSeq(l, 1, k - 1) \o SubSeq(l, k + 1, Len(l))

\* Location.remove_occupant.
remove_occupant(self, agent_id) ==
    IF \E j \in 1..Len(self.current_occupants) : self.current_occupants[j] = agent_id
    THEN [self EXCEPT !.current_occupants = ListRemove(@, agent_id)]
    ELSE self

PopExcessNone(occupants, new_capacity) == occupants

\* while len(current_occupants) > new_capacity: current_occupants.pop()
PopExcess(occupants, new_capacity) ==
    SubSeq(occupants, 1, Min(Len(occupants), new_capacity))

\* LocationManager.update_capacities: the locations and the capacities of
\* the LocationParams objects afterwards.
update_capacities(locs, caps, location_type, new_capacity) ==
    [locations |->
        [id \in DOMAIN locs |->
            IF locs[id].type = location_type
            THEN [locs[id] EXCEPT !.current_occupants = PopExcess(@, new_capacity)]
            ELSE locs[id]],
     capacity |->
        [o \in DOMAIN caps |->
            IF \E id \in DOMAIN locs : locs[id].type = location_type /\ locs[id].params = o
            THEN new_capacity
            ELSE caps[o]]]

\* LocationManager.clear_all_occupants.
clear_all_occupants(locs) ==
    [id \in DOMAIN locs |-> [locs[id] EXCEPT !.current_occupants = <<>>]]

RECURSIVE TotalOver(_, _)
TotalOver(ids, locs) ==
    IF ids = {} THEN 0
    ELSE LET id == CHOOSE x \in ids : TRUE
         IN  Len(locs[id].current_occupants) + TotalOver(ids \ {id}, locs)

\* sum(len(loc.current_occupants)) over the manager's locations.
TotalOccupants(locs) == TotalOver(DOMAIN locs, locs)

InitLoc ==
    /\ agents = <<>>
    /\ current_time = 0
    /\ num_agents = 0
    /\ \E c \in {0, 1, 50} : params = [DefaultParams EXCEPT !.izakaya_capacity = c]
    /\ locations = [id \in ManagedIds |-> _create_locations[id]]
    /\ capacity = _create_capacity(params)
    /\ call = NoCall
    /\ trials = <<>>

\* The model stops adding once MaxOccupants are present while the capacity
\* would still admit more; a call on a full location is always taken.
AddOccupant(id, agent_id) ==
    /\ \/ Len(locations[id].current_occupants) < MaxOccupants
       \/ Len(locations[id].current_occupants) >= capacity[locations[id].params]
    /\ LET r == add_occupant(locations[id], capacity[locations[id].params], agent_id)
       IN  /\ locations' = [locations EXCEPT ![id] = r.self]
           /\ call' = [op |-> "add_occupant", arg |-> agent_id, ret |-> r.ret]
    /\ UNCHANGED <<agents, current_time, num_agents, params, capacity, trials>>

RemoveOccupant(id, agent_id) ==
    /\ locations' = [locations EXCEPT ![id] = remove_occupant(@, agent_id)]
    /\ call' = [op |-> "remove_occupant", arg |-> agent_id, ret |-> None]
    /\ UNCHANGED <<agents, current_time, num_agents, params, capacity, trials>>

\* call.ret counts the occupants popped.
UpdateCapacities(location_type, new_capacity) ==
    /\ LET r == update_capacities(locations, capacity, location_type, new_capacity)
       IN  /\ locations' = r.locations
           /\ capacity' = r.capacity
           /\ call' = [op |-> "update_capacities", arg |-> new_capacity,
                       ret |-> TotalOccupants(locations) - TotalOccupants(r.locations)]
    /\ UNCHANGED <<agents, current_time, num_agents, params, trials>>

ClearAllOccupants ==
    /\ locations' = clear_all_occupants(locations)
    /\ call' = [op |-> "clear_all_occupants", arg |-> 0, ret |-> None]
    /\ UNCHANGED <<agents, current_time, num_agents, params, capacity, trials>>

GetOccupancyRatio(id) ==
    /\ call' = [op |-> "get_occupancy_ratio", arg |-> 0,
                ret |-> get_occupancy_ratio(locations[id], capacity[locations[id].params])]
    /\ UNCHANGED <<agents, current_time, num_agents, params, locations, capacity, trials>>

NextLoc ==
    \/ \E id \in ManagedIds, agent_id \in OccupantIds : AddOccupant(id, agent_id)
    \/ \E id \in ManagedIds, agent_id \in OccupantIds : RemoveOccupant(id, agent_id)
    \/ \E ty \in LocationKinds, c \in 0..MaxCapacity : UpdateCapacities(ty, c)
    \/ ClearAllOccupants
    \/ \E id \in ManagedIds : GetOccupancyRatio(id)

SpecLoc == InitLoc /\ [][NextLoc]_vars

(***************************************************************************)
(* Properties                                                              *)
(***************************************************************************)
Holders == {i \in 1..Len(agents) : agents[i].has_idea}

\* C1: once an agent has the idea it has it in every later state: no step
\* takes has_idea of any agent from true to false.
C1_IdeaMonotone ==
    [][\A i \in 1..Len(agents) :
          agents[i].has_idea => i <= Len(agents') /\ agents'[i].has_idea]_vars

\* An agent that adopted in an earlier tick still holds the idea after a
\* later step that ran trials and converted nobody.
C1_Witness ==
    /\ call.op = "step"
    /\ Cardinality(Holders) >= 2
    /\ trials # <<>>
    /\ \A k \in 1..Len(trials) : ~trials[k].adopted

\* C2: every Location holds at most params.capacity occupants, in every
\* state add_occupant, remove_occupant, update_capacities and
\* clear_all_occupants can reach with capacities >= 0.
C2_CapacityInvariant ==
    \A id \in DOMAIN locations :
        Len(locations[id].current_occupants) <= capacity[locations[id].params]

\* update_capacities has just popped occupants and left a location full.
C2_Witness ==
    /\ call.op = "update_capacities"
    /\ call.ret > 0
    /\ \E id \in DOMAIN locations :
        /\ capacity[locations[id].params] > 0
        /\ Len(locations[id].current_occupants) = capacity[locations[id].params]

\* The scenario of C3: a population of two agents without transit and
\* without venue, with the same home and the same work, one of them seeded,
\* transmission_rate 1.0.
C3_Scenario ==
    /\ num_agents = 2
    /\ params.transmission_rate = 100
    /\ Len(agents) = 2
    /\ \A i \in 1..2 : ~agents[i].uses_train /\ agents[i].izakaya_location = None
    /\ agents[1].home_location = agents[2].home_location
    /\ agents[1].work_location = agents[2].work_location

\* C3 as claimed: in the scenario both agents hold the idea after one step,
\* whatever the draws.
C3_GuaranteedTransmission ==
    (C3_Scenario /\ current_time = 1) => get_state.infected_count = 2

\* C3 as amended: in the scenario the first step runs exactly one trial,
\* from the seeded agent to the other one, with probability
\* 1.0 * min(2/10, 2.0) * 0.1 = 0.02 (200 ten-thousandths); infected_count
\* is 2 when the draw is below 0.02 and 1 otherwise.
C3_OneTrialAtTwoPercent ==
    (C3_Scenario /\ current_time = 1) =>
        /\ agents[1].current_location = agents[2].current_location
        /\ Len(trials) = 1
        /\ trials[1].rate = 200
        /\ trials[1].adopted = (trials[1].draw < 200)
        /\ get_state.infected_count = IF trials[1].draw < 200 THEN 2 ELSE 1

\* The scenario after one step whose draw was not below 0.02: one holder.
C3_Witness ==
    /\ C3_Scenario
    /\ current_time = 1
    /\ call.op = "step"
    /\ get_state.infected_count = 1

\* C4: in the interaction pass of a step, every agent that makes another
\* adopt held the idea before the pass began.
C4_NoSameTickRepropagation ==
    [][current_time' = current_time + 1 =>
          \A k \in 1..Len(trials') :
              trials'[k].adopted => agents[trials'[k].from].has_idea]_vars

\* The location-type factor C5 names, in tenths: that of the activity the
\* agent is in at the simulation's hour of day, 1.0 when none applies.
C5_FactorAtHour(self, hour) ==
    LET k == FirstMatch(self.schedule, 10 * hour, 1)
    IN  IF k = 0 THEN 10 ELSE LocationFactor(self.schedule[k].location_type)

C5_GroupSize(i) ==
    Cardinality({j \in 1..Len(agents) :
                    agents[j].current_location = agents[i].current_location})

\* C5: the probability of every trial from holder A is base_rate *
\* min(group_size / 10, 2.0) * the factor of the activity A is in at the
\* simulation's current hour of day.
C5_EffectiveRate ==
    \A k \in 1..Len(trials) :
        trials[k].rate =
            params.transmission_rate
                * Min(C5_GroupSize(trials[k].from), 20)
                * C5_FactorAtHour(agents[trials[k].from], current_time % 24)

\* The places an agent is configured with.
Anchors(self) ==
    ({self.home_location, self.work_location, self.home_station, self.work_station,
      self.izakaya_location}
        \cup {self.transfer_stations[k] : k \in 1..Len(self.transfer_stations)})
    \ {None}

\* C6: for an agent made by bootstrap, move(h) for any half hour h, after
\* any earlier calls, returns a coordinate that is not None and is one of
\* the agent's anchors.
C6_ScheduleCoverage ==
    call.op = "move" =>
        /\ call.ret # None
        /\ call.ret \in Anchors(agents[1])
        /\ call.ret = agents[1].current_location

\* move at a half hour (not a whole hour) has returned a transfer waypoint.
C6_Witness ==
    /\ call.op = "move"
    /\ call.arg % 10 = 5
    /\ \E k \in 1..Len(agents[1].transfer_stations) :
            call.ret = agents[1].transfer_stations[k]
    /\ call.ret \notin {agents[1].home_station, agents[1].work_station}

MatchingEntries(schedule, t) == {k \in 1..Len(schedule) : Matches(schedule[k], t)}

Earliest(S) == CHOOSE k \in S : \A j \in S : k <= j

\* C7: when entries match h, move(h) sets current_location from the
\* earliest of them in the list, whatever the later matching entries are.
C7_FirstMatch ==
    [][call'.op = "move" =>
          LET M == MatchingEntries(agents[1].schedule, call'.arg)
          IN  M # {} =>
                agents'[1].current_location =
                    Resolve(agents[1], agents[1].schedule[Earliest(M)])]_vars

\* move(h) found a 'home' entry ahead of a 'work' entry, both matching h,
\* and left the agent at home.
C7_Witness ==
    /\ call.op = "move"
    /\ \E j, k \in MatchingEntries(agents[1].schedule, call.arg) :
            /\ j < k
            /\ j = Earliest(MatchingEntries(agents[1].schedule, call.arg))
            /\ agents[1].schedule[j].location_type = "home"
            /\ agents[1].schedule[k].location_type = "work"
    /\ agents[1].current_location = agents[1].home_location

\* C8: when no entry matches h, move(h) leaves the agent as it was, its
\* current_location included, and returns that current_location.
C8_NoMatchRetention ==
    [][(call'.op = "move" /\ MatchingEntries(agents[1].schedule, call'.arg) = {}) =>
          /\ agents' = agents
          /\ call'.ret = agents[1].current_location]_vars

\* move(h) with no matching entry has returned a place other than home.
C8_Witness ==
    /\ call.op = "move"
    /\ MatchingEntries(agents[1].schedule, call.arg) = {}
    /\ call.ret # agents[1].home_location
    /\ call.ret = agents[1].current_location

\* The entry move stops at for h is a 'transfer' entry and the agent has no
\* transfer stations.
C9_Case ==
    /\ call.op = "move"
    /\ agents[1].transfer_stations = <<>>
    /\ MatchingEntries(agents[1].schedule, call.arg) # {}
    /\ agents[1].schedule[Earliest(MatchingEntries(agents[1].schedule, call.arg))]
            .location_type = "transfer"

\* C9: with no transfer stations, move(h) resolving a 'transfer' entry
\* returns work_station when it is set and work_location otherwise, never
\* None.
C9_TransferFallback ==
    C9_Case =>
        /\ call.ret # None
        /\ call.ret = agents[1].current_location
        /\ call.ret = IF agents[1].work_station # None
                      THEN agents[1].work_station
                      ELSE agents[1].work_location

\* The fallback has returned work_location for an agent without work_station.
C9_Witness ==
    /\ C9_Case
    /\ agents[1].work_station = None
    /\ call.ret = agents[1].work_location

\* C10: the number of agents stays the population size, infected_count
\* never decreases from one state to the next, and infection_rate is
\* infected_count over the population size.
C10_PopulationConservation ==
    /\ [](/\ Len(agents) = num_agents
          /\ get_state.infection_rate.num = get_state.infected_count
          /\ get_state.infection_rate.den = num_agents)
    /\ [][/\ Len(agents') = Len(agents)
          /\ get_state'.infected_count >= get_state.infected_count]_vars

\* get_state has reported more than the one seeded holder, and fewer than
\* the whole population.
C10_Witness ==
    /\ call.op = "get_state"
    /\ call.ret.time >= 2
    /\ num_agents > 2
    /\ call.ret.infected_count = 2
    /\ call.ret.infection_rate = [num |-> 2, den |-> num_agents]

\* C11: with transmission_rate 0.0 no step changes the set of idea holders,
\* so in every state the holders are the agents seeded at bootstrap and
\* their number is initial_infected (1 with one seed), however many steps
\* have run.
C11_ZeroTransmission ==
    /\ [](params.transmission_rate = 0 => Cardinality(Holders) = params.initial_infected)
    /\ [][params.transmission_rate = 0 => Holders' = Holders]_vars

\* After 24 steps at rate 0.0 the last pass ran a trial whose draw was the
\* smallest there is, and there is still one holder.
C11_Witness ==
    /\ params.transmission_rate = 0
    /\ call.op = "step"
    /\ current_time = 24
    /\ \E k \in 1..Len(trials) : trials[k].draw = 0 /\ trials[k].rate = 0
    /\ Cardinality(Holders) = 1

\* C12: add_occupant on a Location whose occupant count equals its capacity
\* returns False and leaves current_occupants (of every location) as they
\* were; a Location of capacity 0 rejects the call for every agent id.
C12_CapacityRejection ==
    [][\A id \in ManagedIds, agent_id \in OccupantIds :
          LET cap == capacity[locations[id].params]
              r == add_occupant(locations[id], cap, agent_id)
          IN  (/\ call'.op = "add_occupant"
               /\ call'.arg = agent_id
               /\ call'.ret = r.ret
               /\ locations' = [locations EXCEPT ![id] = r.self]
               /\ Len(locations[id].current_occupants) = cap \/ cap = 0)
              => /\ call'.ret = FALSE
                 /\ locations' = locations]_vars

\* add_occupant has just been refused by a location that is full with at
\* least one occupant: no location has capacity 0.
C12_Witness ==
    /\ call.op = "add_occupant"
    /\ call.ret = FALSE
    /\ \A id \in DOMAIN locations : capacity[locations[id].params] >= 1
    /\ \E id \in DOMAIN locations :
            Len(locations[id].current_occupants) = capacity[locations[id].params]

\* The values np.random.random() returned during a pass, in the order drawn.
Draws(log) == [k \in 1..Len(log) |-> log[k].draw]

\* Two runs fed the same stream of draws: each consumed a prefix of it.
SameStream(s, t) == \A k \in 1..Min(Len(s), Len(t)) : s[k] = t[k]

C14_Seeding ==
    (call.op = "__init__" /\ call.ret = "TokyoSimulation")
    => /\ Len(agents) = num_agents
       /\ params.initial_infected \in 0..num_agents
       /\ Cardinality(Holders) = params.initial_infected
       /\ \A i \in 1..Len(agents) : i \notin Holders => agents[i].has_idea = FALSE

\* Bootstrap has seeded two of three agents, the first not among them.
C14_Witness ==
    /\ call.op = "__init__"
    /\ call.ret = "TokyoSimulation"
    /\ num_agents = 3
    /\ params.initial_infected = 2
    /\ Holders = {2, 3}

\* C15: with initial_infected above the population size construction fails
\* with an error: __init__ never returns a simulation, so nothing is
\* clamped and no step() or get_state() is ever served.
C15_OverSeedingRejected ==
    (params.initial_infected > num_agents /\ call.op # "none")
    => /\ call.op = "__init__"
       /\ call.ret = "ValueError"

\* Construction of a non-empty population asked for one seed too many has
\* failed.
C15_Witness ==
    /\ call.op = "__init__"
    /\ call.ret = "ValueError"
    /\ num_agents >= 1
    /\ params.initial_infected = num_agents + 1

\* C16: with a population of 0 construction fails for every
\* initial_infected, 0 included, so get_state() is never called on a
\* simulation without agents.
C16_ZeroPopulationRejected ==
    (num_agents = 0 /\ call.op # "none")
    => /\ call.op = "__init__"
       /\ call.ret = "ValueError"

\* C17: current_time is 0 after bootstrap, every step() adds exactly 1 to
\* it with no wrap-around and nothing else changes it, get_state() reports
\* it as 'time', and a step resolves every agent's location for the hour
\* current_time % 24.
C17_TickCounter ==
    /\ [](call.op = "none" => current_time = 0)
    /\ [](call.op = "get_state" => call.ret.time = current_time)
    /\ [][IF call'.op = "step"
           THEN /\ current_time' = current_time + 1
                /\ \A i \in 1..Len(agents) :
                        agents'[i].current_location
                            = move(agents[i], 10 * (current_time' % 24)).current_location
           ELSE current_time' = current_time]_vars

\* get_state() after more than 24 steps.
C17_Witness ==
    /\ call.op = "get_state"
    /\ call.ret.time > 24

\* C18: agent ids are unique and the agent at position i of the list (from
\* 0) has id i; get_state()['agent_locations'] has one entry per agent, in
\* list order, entry i being (current_location, has_idea) of agent i.
C18_SnapshotOrdering ==
    /\ \A i \in 1..Len(agents) : agents[i].id = i - 1
    /\ \A i, j \in 1..Len(agents) : i # j => agents[i].id # agents[j].id
    /\ Len(get_state.agent_locations) = Len(agents)
    /\ call.op = "get_state"
        => /\ Len(call.ret.agent_locations) = Len(agents)
           /\ \A i \in 1..Len(agents) :
                /\ call.ret.agent_locations[i][1] = agents[i].current_location
                /\ call.ret.agent_locations[i][2] = agents[i].has_idea

\* A snapshot of three agents after some steps, in which the entries of
\* the agents differ in place and in has_idea.
C18_Witness ==
    /\ call.op = "get_state"
    /\ current_time > 0
    /\ Len(call.ret.agent_locations) = 3
    /\ call.ret.agent_locations[1][1] # call.ret.agent_locations[2][1]
    /\ call.ret.agent_locations[2][2] # call.ret.agent_locations[3][2]

\* C19: for a transit agent with n transfer stations, move(h) at a time
\* matched by the j-th evening 'transfer' entry (j = 0..n-1; the evening
\* entries are those with n or more 'transfer' entries before them)
\* returns transfer_stations[n-1-j]: the waypoints in reverse order.
C19_EveningReverse ==
    call.op = "move" =>
        LET self == agents[1]
            n == Len(self.transfer_stations)
            k == FirstMatch(self.schedule, call.arg, 1)
            idx == TransferIdx(self.schedule, self.schedule[k])
        IN  (k # 0 /\ self.schedule[k].location_type = "transfer" /\ idx >= n)
            => call.ret = self.transfer_stations[(n - 1 - (idx - n)) + 1]

\* The hours of the day, in tenths of an hour.
HoursOfDay == {10 * h : h \in 0..23}

\* Entry s covers time t of the day when projected modulo 24.
Covers(s, t) == Matches(s, t) \/ Matches(s, t + 240)

\* C20: the schedule stored on an agent by generate_daily_schedule has, for
\* every hour of the day h in [0, 24), at least one entry with
\* start_time <= h < start_time + duration (modulo 24), whatever the agent
\* and the draws.
C20_WellFormedSchedule ==
    \A i \in 1..Len(agents) : \A t \in HoursOfDay :
        \E k \in 1..Len(agents[i].schedule) : Covers(agents[i].schedule[k], t)

\* C21: generate_daily_schedule leaves the non-empty list it returns on the
\* agent for every combination of flags and every outcome of the draws, so
\* after bootstrap no agent has an empty schedule.
C21_ScheduleStored ==
    \A i \in 1..Len(agents) : agents[i].schedule # <<>>

\* The 'transfer' entries before position k of a schedule.
TransfersBefore(schedule, k) ==
    Cardinality({j \in 1..(k - 1) : schedule[j].location_type = "transfer"})

\* C22: for a transit agent with n transfer stations, move(h) at a time
\* matched by the k-th morning 'transfer' entry (k = 0..n-1) returns
\* transfer_stations[k], k being the number of 'transfer' entries before
\* the matched entry in the schedule.
C22_PositionalTransfer ==
    call.op = "move" =>
        LET self == agents[1]
            m == FirstMatch(self.schedule, call.arg, 1)
            k == TransfersBefore(self.schedule, m)
        IN  (/\ m # 0
             /\ self.schedule[m].location_type = "transfer"
             /\ k < Len(self.transfer_stations))
            => call.ret = self.transfer_stations[k + 1]

\* move has stopped at the second morning 'transfer' entry of an agent
\* whose two transfer stations differ, and returned the second station.
C22_Witness ==
    /\ call.op = "move"
    /\ Len(agents[1].transfer_stations) = 2
    /\ LET m == FirstMatch(agents[1].schedule, call.arg, 1)
       IN  /\ m # 0
           /\ agents[1].schedule[m].location_type = "transfer"
           /\ TransfersBefore(agents[1].schedule, m) = 1
    /\ call.ret = agents[1].transfer_stations[2]
    /\ call.ret # agents[1].transfer_stations[1]

\* The schedule took the closing commute after going straight home or after
\* a regular venue visit (1.5 to 3 hours): it was stored, and it holds no
\* venue stay of 4 hours or more.
ClosingCommute(self) ==
    /\ self.schedule # <<>>
    /\ \A k \in 1..Len(self.schedule) :
            self.schedule[k].location_type = "izakaya" => self.schedule[k].duration < 40

\* The commute of a non-transit agent is a gap of 0.5 h with no entry: one
\* before 'work' and one before the final 'home'.
GapBefore(self, k) ==
    IF ~self.uses_train
       /\ \/ self.schedule[k].location_type = "work"
          \/ k = Len(self.schedule)
    THEN 5 ELSE 0

\* C23: in every schedule that takes the closing commute the first entry
\* starts at hour 0, each entry starts where the one before it ends (after
\* the commute gap of a non-transit agent), and the last entry is 'home'
\* with start_time + duration = 24.
C23_DaySumsTo24 ==
    \A i \in 1..Len(agents) :
        LET self == agents[i]
            n == Len(self.schedule)
        IN  ClosingCommute(self) =>
                /\ self.schedule[1].start_time = 0
                /\ \A k \in 2..n :
                        self.schedule[k].start_time
                            = self.schedule[k - 1].start_time + self.schedule[k - 1].duration
                              + GapBefore(self, k)
                /\ self.schedule[n].location_type = "home"
                /\ self.schedule[n].start_time + self.schedule[n].duration = 240

\* A transit agent with two transfers and a regular venue visit whose
\* closing commute ends at hour 24 sharp, and a move into its evening.
C23_Witness ==
    /\ call.op = "move"
    /\ call.arg >= 200
    /\ ClosingCommute(agents[1])
    /\ Len(agents[1].transfer_stations) = 2
    /\ \E k \in 1..Len(agents[1].schedule) : agents[1].schedule[k].location_type = "izakaya"
    /\ agents[1].schedule[Len(agents[1].schedule)].start_time >= 240

\* C24: an agent B goes from has_idea = false to true during a step only
\* through a successful trial of that step from an agent A that holds the
\* idea and whose current_location in that tick equals B's; agents at
\* different coordinates never affect each other.
C24_ExactCoLocation ==
    [][\A b \in 1..Len(agents) :
          (~agents[b].has_idea /\ agents'[b].has_idea)
          => \E k \in 1..Len(trials') :
                /\ trials'[k].to = b
                /\ trials'[k].adopted
                /\ trials'[k].from # b
                /\ agents'[trials'[k].from].has_idea
                /\ agents'[trials'[k].from].current_location = agents'[b].current_location]_vars

\* A step in which one agent adopted from a holder at its place while a
\* third agent, elsewhere, stayed without the idea.
C24_Witness ==
    /\ call.op = "step"
    /\ \E k \in 1..Len(trials) : trials[k].adopted
    /\ \E i \in 1..Len(agents) :
        /\ ~agents[i].has_idea
        /\ \A j \in Holders : agents[j].current_location # agents[i].current_location

\* C25: in a schedule whose venue stay is the very-late one (4 to 6 hours)
\* and that is not the near-dawn one, the venue entry is followed directly
\* by the final 'home' entry: no work_station, transfer or home_station
\* entry comes after the venue.
C25_TaxiHome ==
    \A i \in 1..Len(agents) :
        LET schedule == agents[i].schedule
        IN  \A k \in 1..Len(schedule) :
                (schedule[k].location_type = "izakaya" /\ schedule[k].duration >= 40)
                => /\ k + 1 = Len(schedule)
                   /\ schedule[k + 1].location_type = "home"

\* C26: when update_capacities lowers a kind's capacity below a location's
\* occupant count, the location ends with exactly new_capacity occupants
\* and those are the most recently added ones: the oldest-added are
\* evicted.
C26_OldestEvictedFirst ==
    [][call'.op = "update_capacities" =>
        \A id \in DOMAIN locations :
            LET old == locations[id].current_occupants
                new == locations'[id].current_occupants
            IN  (capacity'[locations[id].params] = call'.arg /\ Len(old) > call'.arg)
                => /\ Len(new) = call'.arg
                   /\ new = SubSeq(old, Len(old) - call'.arg + 1, Len(old))]_vars

\* The positions of agent_id in a list of occupants.
Occurrences(occupants, agent_id) == {k \in 1..Len(occupants) : occupants[k] = agent_id}

\* C27: a Location's current_occupants holds each agent id at most once
\* after any sequence of add_occupant and remove_occupant calls, and after
\* remove_occupant(id) the id is in the list of no location it was removed
\* from.
C27_OccupantsFormSet ==
    /\ [](\A id \in DOMAIN locations, agent_id \in OccupantIds :
            Cardinality(Occurrences(locations[id].current_occupants, agent_id)) <= 1)
    /\ [][call'.op = "remove_occupant" =>
            \A id \in DOMAIN locations :
                locations'[id] # locations[id]
                => Occurrences(locations'[id].current_occupants, call'.arg) = {}]_vars

\* The group of location_groups an agent is in: the positions (group, place
\* in the group) that hold it.
GroupsOf(groups, i) ==
    {gk \in UNION {{<<g, k>> : k \in 1..Len(groups[g])} : g \in 1..Len(groups)} :
        groups[gk[1]][gk[2]] = i}

\* C28: in each step every agent's move for the tick is done before the
\* groups are built and before any trial runs: the groups and the trials
\* are those of the locations after the moves.  The groups are a partition
\* of the agent list (each agent is in exactly one group, a group is the
\* agents of one coordinate), and every trial, so every write of has_idea,
\* is between two agents of one group.
C28_GroupingSnapshot ==
    /\ [](LET groups == location_groups(agents)
          IN  /\ \A i \in 1..Len(agents) : Cardinality(GroupsOf(groups, i)) = 1
              /\ \A g, h \in 1..Len(groups) : \A k \in 1..Len(groups[g]), l \in 1..Len(groups[h]) :
                    (agents[groups[g][k]].current_location
                        = agents[groups[h][l]].current_location) <=> (g = h))
    /\ [][call'.op = "step" =>
            /\ \A i \in 1..Len(agents) :
                    agents'[i].current_location
                        = move(agents[i], 10 * (current_time' % 24)).current_location
            /\ \A k \in 1..Len(trials') :
                    \E g \in 1..Len(location_groups(agents')) :
                        {trials'[k].from, trials'[k].to}
                            \subseteq {location_groups(agents')[g][l] :
                                            l \in 1..Len(location_groups(agents')[g])}]_vars

\* A step has run a trial inside a group of two agents, with at least one
\* other group beside it.
C28_Witness ==
    /\ call.op = "step"
    /\ trials # <<>>
    /\ Len(location_groups(agents)) >= 2
    /\ \E g \in 1..Len(location_groups(agents)) : Len(location_groups(agents)[g]) = 2

\* An agent with the two fields a step may write blanked out.
Frame(self) == [self EXCEPT !.current_location = None, !.has_idea = FALSE]

\* C29: a step() changes only the simulation's current_time and the
\* agents' current_location and has_idea: the agent list keeps its length
\* and order, every agent keeps its id, anchors, flags, schedule and its
\* own current_time, and num_agents, params and every Location's
\* occupants, capacity and parameters are unchanged.
C29_StepFrame ==
    [][call'.op = "step" =>
        /\ Len(agents') = Len(agents)
        /\ \A i \in 1..Len(agents) : Frame(agents'[i]) = Frame(agents[i])
        /\ num_agents' = num_agents
        /\ params' = params
        /\ locations' = locations
        /\ capacity' = capacity]_vars

\* A step at hour 9 or later in which an agent adopted the idea, with an
\* agent away from home.
C29_Witness ==
    /\ call.op = "step"
    /\ current_time >= 9
    /\ \E k \in 1..Len(trials) : trials[k].adopted
    /\ \E i \in 1..Len(agents) : agents[i].current_location # agents[i].home_location

\* C30: every entry of a generated schedule has duration > 0, the final
\* 'home' entry included, for every agent and every outcome of the clamped
\* draws.
C30_PositiveDurations ==
    \A i \in 1..Len(agents) : \A k \in 1..Len(agents[i].schedule) :
        agents[i].schedule[k].duration > 0

\* C31: in every Location state reachable through add_occupant,
\* remove_occupant and update_capacities with capacities >= 0,
\* get_occupancy_ratio returns a value between 0.0 and 1.0 and does not
\* fail.
C31_OccupancyRatioRange ==
    call.op = "get_occupancy_ratio" =>
        /\ ~call.ret.raises
        /\ 0 <= call.ret.num
        /\ call.ret.num <= call.ret.den

\* C32: get_state() is a pure read: a call changes neither current_time
\* nor any agent (current_location, has_idea, schedule or anything else),
\* nor any other part of the simulation, and as long as no step() follows
\* it a further call returns the value the last one returned.
C32_GetStatePureRead ==
    /\ [][call'.op = "get_state" =>
            /\ current_time' = current_time
            /\ agents' = agents
            /\ num_agents' = num_agents
            /\ params' = params
            /\ locations' = locations
            /\ capacity' = capacity
            /\ trials' = trials]_vars
    /\ [](call.op = "get_state" => call.ret = get_state)

\* get_state() called after the ninth step or later, with an agent away
\* from home and two holders reported.
C32_Witness ==
    /\ call.op = "get_state"
    /\ call.ret.time >= 9
    /\ call.ret.infected_count = 2
    /\ \E i \in 1..Len(agents) :
            call.ret.agent_locations[i][1] # agents[i].home_location

====
